---- MODULE Spec2Model ----
(***************************************************************************)
(* VX7 synthesis engine: the polyphonic voice pool (engine/synth.py), the  *)
(* voice (engine/voice.py), the operator and its envelope generator        *)
(* (engine/operator.py, engine/envelope.py) and the LFO (engine/lfo.py).   *)
(*                                                                         *)
(* Amplitudes are fixed-point: AmpOne stands for the float 1.0.  Operator  *)
(* and LFO phases are kept in abstract phase units (PhaseMod, LfoMod stand *)
(* for 2*pi and 1.0).                                                      *)
(***************************************************************************)
EXTENDS Integers, Sequences, FiniteSets, TLC

(***************************************************************************)
(* Bounds of the model.                                                    *)
(***************************************************************************)
Polyphony == 2
NumNotes == 3
MaxAge == 1

Voices == 0..(Polyphony - 1)
Notes == 0..(NumNotes - 1)
Velocities == {0, 100}
BlockSizes == {1, 2}
Ops == 0..5

(***************************************************************************)
(* Program constants.                                                      *)
(***************************************************************************)
AmpOne == 1000
MasterVolume == 800
PhaseMod == 4
LfoMod == 4

Min(a, b) == IF a < b THEN a ELSE b
Max(a, b) == IF a > b THEN a ELSE b
Abs(a) == IF a < 0 THEN 0 - a ELSE a
Clip(x, lo, hi) == IF x < lo THEN lo ELSE IF x > hi THEN hi ELSE x
\* round(a / b) for a >= 0, b > 0
RoundDiv(a, b) == (2 * a + b) \div (2 * b)

(***************************************************************************)
(* engine/envelope.py                                                      *)
(***************************************************************************)
IDLE == -1
ATTACK == 0
DECAY1 == 1
DECAY2 == 2
RELEASE == 3

\* RATE_TIMES[rate] * sample_rate: samples of a full-scale transition.  The
\* table is sampled at rates 25, 50 and 71..99 (where _MIN_RATE_TIME clamps).
RateSamples(rate) ==
    LET r == Clip(rate, 0, 99) IN
    IF r >= 71 THEN 22
    ELSE IF r >= 50 THEN 602
    ELSE 32504

\* LEVEL_AMPS[level] in units of 1/AmpOne, sampled at levels 0, 25, 50, 75,
\* 90 and 99.
LevelAmp(level) ==
    LET l == Clip(level, 0, 99) IN
    IF l = 0 THEN 0
    ELSE IF l = 99 THEN AmpOne
    ELSE IF l >= 90 THEN 652
    ELSE IF l >= 75 THEN 319
    ELSE IF l >= 50 THEN 97
    ELSE 30

\* Envelope.__init__
NewEnvelope(rates, levels) ==
    [rates |-> [i \in 1..4 |-> Clip(rates[i], 0, 99)],
     levels |-> [i \in 1..4 |-> Clip(levels[i], 0, 99)],
     stage |-> IDLE, cur |-> 0, target |-> 0,
     incNum |-> 0, incDen |-> 1, rem |-> 0]

EnvIsActive(env) == env.stage # IDLE

\* Envelope._enter_stage
EnterStage(env, stage) ==
    IF stage = IDLE
    THEN [env EXCEPT !.stage = IDLE, !.incNum = 0, !.incDen = 1, !.rem = 0]
    ELSE IF stage \notin {ATTACK, DECAY1, DECAY2, RELEASE}
    THEN [env EXCEPT !.stage = IDLE]
    ELSE
      LET target == IF stage = RELEASE THEN LevelAmp(env.levels[4])
                    ELSE LevelAmp(env.levels[stage + 1])
          rate == env.rates[stage + 1]
          delta == Abs(target - env.cur)
          samples == Max(1, RoundDiv(RateSamples(rate) * delta, AmpOne))
      IN IF delta = 0
         THEN [env EXCEPT !.stage = stage, !.target = target, !.cur = target,
                          !.rem = 0, !.incNum = 0, !.incDen = 1]
         ELSE [env EXCEPT !.stage = stage, !.target = target,
                          !.rem = samples,
                          !.incNum = target - env.cur, !.incDen = samples]

\* an _advance_stage that goes from a completed Release to the sustain hold
AdvanceStageSustains(env) ==
    IF env.stage = ATTACK THEN EnterStage(env, DECAY1)
    ELSE IF env.stage = DECAY1 THEN EnterStage(env, DECAY2)
    ELSE [env EXCEPT !.cur = env.target, !.stage = DECAY2, !.rem = 0]

\* Envelope._advance_stage
AdvanceStage(env) ==
    IF env.stage = ATTACK THEN EnterStage(env, DECAY1)
    ELSE IF env.stage = DECAY1 THEN EnterStage(env, DECAY2)
    ELSE IF env.stage = DECAY2 THEN [env EXCEPT !.rem = 0]
    ELSE IF env.stage = RELEASE
    THEN [env EXCEPT !.cur = env.target, !.stage = IDLE]
    ELSE env

\* Envelope.gate_on
EnvGateOn(env) ==
    EnterStage([env EXCEPT !.cur = LevelAmp(env.levels[4])], ATTACK)

\* a gate_off without the test for Idle
GateOffAlwaysReleases(env) == EnterStage(env, RELEASE)

\* Envelope.gate_off
EnvGateOff(env) ==
    IF env.stage = IDLE THEN env ELSE EnterStage(env, RELEASE)

\* Envelope.reset
EnvReset(env) ==
    [env EXCEPT !.stage = IDLE, !.cur = 0, !.target = 0,
                !.incNum = 0, !.incDen = 1, !.rem = 0]

\* value written by _fill_ramp at position k (1-based) of a chunk
RampValue(env, k) ==
    LET step == IF env.incNum >= 0
                THEN (env.incNum * k) \div env.incDen
                ELSE 0 - ((0 - env.incNum * k) \div env.incDen)
    IN Clip(env.cur + step, 0, AmpOne)

\* Envelope._fill_ramp: returns the envelope and the chunk written
FillRamp(env, count) ==
    [env |-> [env EXCEPT !.cur = RampValue(env, count),
                         !.rem = env.rem - count],
     chunk |-> [k \in 1..count |-> RampValue(env, k)]]

Hold(value, count) == [k \in 1..count |-> value]

\* Envelope.render, "if self._samples_remaining <= 0" after a ramp: the stage
\* is complete (Decay2 stays in Decay2, the sustain hold)
StageComplete(env) ==
    IF env.rem > 0 THEN env
    ELSE IF env.stage = DECAY2 THEN [env EXCEPT !.cur = env.target]
    ELSE AdvanceStage([env EXCEPT !.cur = env.target])

Ramped(f) == [env |-> StageComplete(f.env), chunk |-> f.chunk]

\* Envelope.render: one iteration of the while loop, with the samples it wrote
EnvStep(env, remaining) ==
    IF env.stage = IDLE \/ (env.stage = DECAY2 /\ env.rem <= 0)
    THEN [env |-> env, chunk |-> Hold(env.cur, remaining)]
    ELSE IF env.rem <= 0
    THEN [env |-> AdvanceStage([env EXCEPT !.cur = env.target]),
          chunk |-> <<>>]
    ELSE Ramped(FillRamp(env, Min(remaining, env.rem)))

\* Envelope.render: the while loop
RECURSIVE EnvRenderLoop(_, _, _)
EnvAppend(r, out, n) == EnvRenderLoop(r.env, out \o r.chunk, n)

EnvRenderLoop(env, out, n) ==
    IF Len(out) >= n THEN [env |-> env, out |-> out]
    ELSE EnvAppend(EnvStep(env, n - Len(out)), out, n)

EnvRender(env, n) == EnvRenderLoop(env, <<>>, n)

(***************************************************************************)
(* engine/algorithm.py                                                     *)
(***************************************************************************)
\* ALGORITHMS[i] is ALGORITHMS[i + 1] here (sequences are 1-based).
ALGORITHMS ==
  <<
     [carriers |-> {0}, modulations |-> <<<<5, 4>>, <<4, 3>>, <<3, 2>>, <<2, 1>>, <<1, 0>>>>, feedback_op |-> 5],
     [carriers |-> {0}, modulations |-> <<<<5, 4>>, <<4, 3>>, <<3, 2>>, <<2, 1>>, <<1, 0>>>>, feedback_op |-> 1],
     [carriers |-> {0}, modulations |-> <<<<5, 4>>, <<4, 3>>, <<3, 0>>, <<2, 1>>, <<1, 0>>>>, feedback_op |-> 5],
     [carriers |-> {0}, modulations |-> <<<<5, 4>>, <<4, 3>>, <<3, 2>>, <<2, 1>>, <<1, 0>>>>, feedback_op |-> 3],
     [carriers |-> {0, 2}, modulations |-> <<<<5, 4>>, <<4, 3>>, <<3, 2>>, <<1, 0>>>>, feedback_op |-> 5],
     [carriers |-> {0, 2}, modulations |-> <<<<5, 4>>, <<4, 3>>, <<3, 2>>, <<1, 0>>>>, feedback_op |-> 4],
     [carriers |-> {0}, modulations |-> <<<<5, 4>>, <<4, 3>>, <<3, 1>>, <<2, 1>>, <<1, 0>>>>, feedback_op |-> 5],
     [carriers |-> {0}, modulations |-> <<<<3, 2>>, <<5, 4>>, <<2, 1>>, <<4, 1>>, <<1, 0>>>>, feedback_op |-> 3],
     [carriers |-> {0}, modulations |-> <<<<3, 2>>, <<5, 4>>, <<2, 1>>, <<4, 1>>, <<1, 0>>>>, feedback_op |-> 1],
     [carriers |-> {0, 3}, modulations |-> <<<<5, 4>>, <<4, 3>>, <<2, 1>>, <<1, 0>>>>, feedback_op |-> 2],
     [carriers |-> {0, 3}, modulations |-> <<<<5, 4>>, <<4, 3>>, <<2, 1>>, <<1, 0>>>>, feedback_op |-> 5],
     [carriers |-> {0, 2}, modulations |-> <<<<1, 0>>, <<5, 4>>, <<4, 3>>, <<3, 2>>>>, feedback_op |-> 1],
     [carriers |-> {0, 2}, modulations |-> <<<<1, 0>>, <<5, 4>>, <<4, 3>>, <<3, 2>>>>, feedback_op |-> 5],
     [carriers |-> {0, 2}, modulations |-> <<<<5, 4>>, <<4, 3>>, <<3, 2>>, <<1, 0>>>>, feedback_op |-> 5],
     [carriers |-> {0, 2}, modulations |-> <<<<1, 0>>, <<5, 4>>, <<4, 2>>>>, feedback_op |-> 1],
     [carriers |-> {0}, modulations |-> <<<<5, 4>>, <<4, 0>>, <<3, 2>>, <<2, 0>>, <<1, 0>>>>, feedback_op |-> 5],
     [carriers |-> {0}, modulations |-> <<<<5, 4>>, <<4, 0>>, <<3, 0>>, <<2, 1>>, <<1, 0>>>>, feedback_op |-> 1],
     [carriers |-> {0}, modulations |-> <<<<2, 1>>, <<5, 4>>, <<4, 3>>, <<1, 0>>, <<3, 0>>>>, feedback_op |-> 2],
     [carriers |-> {0, 1, 2, 3}, modulations |-> <<<<5, 4>>, <<4, 3>>, <<4, 2>>, <<4, 1>>>>, feedback_op |-> 5],
     [carriers |-> {0, 3, 4}, modulations |-> <<<<2, 1>>, <<1, 0>>, <<5, 4>>, <<5, 3>>>>, feedback_op |-> 2],
     [carriers |-> {0, 2, 3, 4}, modulations |-> <<<<5, 4>>, <<5, 3>>, <<5, 2>>, <<1, 0>>>>, feedback_op |-> 5],
     [carriers |-> {0, 1, 2, 3, 4}, modulations |-> <<<<5, 4>>, <<5, 3>>, <<5, 2>>, <<5, 1>>, <<5, 0>>>>, feedback_op |-> 5],
     [carriers |-> {0, 2, 3}, modulations |-> <<<<5, 4>>, <<4, 3>>, <<1, 0>>>>, feedback_op |-> 5],
     [carriers |-> {0, 1, 2, 3}, modulations |-> <<<<5, 4>>, <<4, 3>>, <<4, 2>>>>, feedback_op |-> 5],
     [carriers |-> {0, 1, 2, 3}, modulations |-> <<<<5, 4>>, <<4, 3>>>>, feedback_op |-> 5],
     [carriers |-> {0, 2, 3}, modulations |-> <<<<5, 4>>, <<4, 3>>, <<5, 2>>, <<1, 0>>>>, feedback_op |-> 5],
     [carriers |-> {0, 3, 4}, modulations |-> <<<<2, 1>>, <<1, 0>>, <<5, 4>>>>, feedback_op |-> 5],
     [carriers |-> {0, 2, 5}, modulations |-> <<<<4, 3>>, <<3, 2>>, <<1, 0>>>>, feedback_op |-> 4],
     [carriers |-> {0, 1, 2, 4}, modulations |-> <<<<5, 4>>, <<3, 2>>>>, feedback_op |-> 5],
     [carriers |-> {0, 1, 2, 5}, modulations |-> <<<<4, 3>>, <<3, 2>>>>, feedback_op |-> 4],
     [carriers |-> {0, 1, 2, 3, 4}, modulations |-> <<<<5, 4>>>>, feedback_op |-> 5],
     [carriers |-> {0, 1, 2, 3, 4, 5}, modulations |-> <<>>, feedback_op |-> 5]
  >>

Algo(index) == ALGORITHMS[index + 1]

\* sorted(...) / list.sort() on a list without duplicates
RECURSIVE SortDescending(_)
SortDescending(S) ==
    IF S = {} THEN <<>>
    ELSE LET m == CHOOSE x \in S : \A y \in S : y <= x
         IN <<m>> \o SortDescending(S \ {m})

RECURSIVE Sorted(_)
Sorted(S) ==
    IF S = {} THEN <<>>
    ELSE LET m == CHOOSE x \in S : \A y \in S : x <= y
         IN <<m>> \o Sorted(S \ {m})

SeqRange(q) == {q[k] : k \in DOMAIN q}

\* _build_dependency_order: modulated_by, without the feedback self-loop
ModulatedBy(a) ==
    [dst \in Ops |->
        {a.modulations[k][1] :
            k \in {j \in DOMAIN a.modulations : a.modulations[j][2] = dst}}
        \ (IF a.feedback_op = dst THEN {dst} ELSE {})]

\* _build_dependency_order: the while loop (in_degree[i] is the size of
\* modulated_by[i] throughout)
RECURSIVE Kahn(_, _, _)
Kahn(modulated_by, queue, order) ==
    IF queue = <<>> THEN order
    ELSE LET op == Head(queue)
             ready == {dst \in Ops : modulated_by[dst] = {op}}
         IN Kahn([dst \in Ops |-> modulated_by[dst] \ {op}],
                 Sorted(SeqRange(Tail(queue)) \cup ready),
                 Append(order, op))

KahnOrder(a) ==
    Kahn(ModulatedBy(a),
         Sorted({i \in Ops : ModulatedBy(a)[i] = {}}), <<>>)

\* _build_dependency_order: operators the sort did not reach, appended
Missing(order) == Sorted(Ops \ SeqRange(order))

BuildDependencyOrder(a) == KahnOrder(a) \o Missing(KahnOrder(a))

\* _RENDER_ORDERS
RENDER_ORDERS == [i \in 0..31 |-> BuildDependencyOrder(Algo(i))]

\* FEEDBACK_LEVELS, in units of pi / 256
FEEDBACK_LEVELS == <<0, 1, 2, 4, 8, 16, 32, 64>>

\* feedback_param_to_level
FeedbackParamToLevel(param) == FEEDBACK_LEVELS[Clip(param, 0, 7) + 1]

\* apply_algorithm, lines 398-408: the modulation edges whose source output
\* is added into mod_input of operator op, in the order they are added
Gathered(a, op, rendered) ==
    SelectSeq(a.modulations,
              LAMBDA m : m[2] = op /\ m[1] # op /\ m[1] \in rendered)

\* apply_algorithm, line 410
IsFbOp(a, op, feedback) ==
    op = a.feedback_op /\ FeedbackParamToLevel(feedback) > 0

\* apply_algorithm, lines 413-428: the sources of the phase modulation the
\* operator is rendered with (render_with_feedback takes no modulation)
PhaseModulation(a, op, feedback, rendered) ==
    IF IsFbOp(a, op, feedback) THEN <<>>
    ELSE [k \in DOMAIN Gathered(a, op, rendered) |->
             Gathered(a, op, rendered)[k][1]]

\* apply_algorithm, the loop over the render order
RECURSIVE ModInputs(_, _, _, _, _)
ModInputs(a, feedback, order, k, acc) ==
    IF k > Len(order) THEN acc
    ELSE ModInputs(a, feedback, order, k + 1,
                   [acc EXCEPT ![order[k]] =
                       PhaseModulation(a, order[k], feedback,
                                       {order[j] : j \in 1..(k - 1)})])

\* parameters of apply_algorithm's signature
ApplyAlgorithmParams ==
    {"operators", "algorithm_index", "feedback_param", "num_samples",
     "base_freq", "sample_rate", "feedback_buffers", "pitch_mod", "amp_mod"}

\* keyword arguments Voice.render passes to apply_algorithm
VoiceRenderKwargs ==
    {"operators", "algorithm_index", "feedback_param", "num_samples",
     "base_freq", "sample_rate", "feedback_buffers", "pitch_mod", "amp_mod",
     "freq_ratio", "op_enabled"}

\* a call that takes any keyword argument
AcceptsAnyKeyword(kwargs, params) == kwargs \subseteq kwargs \cup params

\* Python binds keyword arguments before the body runs: an unexpected keyword
\* raises TypeError.
CallAccepted(kwargs, params) == kwargs \subseteq params

(***************************************************************************)
(* Presets                                                                 *)
(***************************************************************************)
\* _default_preset
DefaultPreset ==
    [algorithm |-> 0, feedback |-> 0, key_sync |-> TRUE,
     ops |-> [i \in Ops |->
                [rates |-> <<99, 99, 99, 99>>,
                 levels |-> <<99, 99, IF i = 0 THEN 99 ELSE 0, 0>>,
                 krs |-> 0]]]

\* all six operators carriers, full level (end-to-end scenario 2)
PresetA ==
    [algorithm |-> 31, feedback |-> 7, key_sync |-> TRUE,
     ops |-> [i \in Ops |->
                [rates |-> <<99, 99, 99, 99>>,
                 levels |-> <<99, 99, 99, 0>>,
                 krs |-> 0]]]

\* two carriers, slower envelope, free-running LFO, out-of-range feedback
PresetB ==
    [algorithm |-> 4, feedback |-> 9, key_sync |-> FALSE,
     ops |-> [i \in Ops |->
                [rates |-> <<50, 50, 50, 50>>,
                 levels |-> <<99, 90, 75, 50>>,
                 krs |-> 3]]]

\* a preset is referred to by its index: 0 is the default preset a voice is
\* built with, NoPreset is Synth._current_preset = None
PresetIds == {1, 2}
SpecPresets == {1}
NoPreset == -1
PresetOf(id) ==
    IF id = 1 THEN PresetA ELSE IF id = 2 THEN PresetB ELSE DefaultPreset

\* OperatorParams of operator i of a preset; an operator keeps the reference
ParamsOf(ref) == PresetOf(ref.preset).ops[ref.op]

(***************************************************************************)
(* engine/operator.py                                                      *)
(***************************************************************************)
\* key_rate_scaling
KeyRateScaling(rate, note, krs) ==
    LET k == Clip(krs, 0, 7) IN
    IF k = 0 THEN Clip(rate, 0, 99)
    ELSE Clip(rate + RoundDiv(k * Max(0, note - 36), 36), 0, 99)

\* Operator.__init__ (params: the reference to its OperatorParams)
NewOperator(params) ==
    [params |-> params,
     env |-> NewEnvelope(ParamsOf(params).rates, ParamsOf(params).levels),
     phase |-> 0]

\* Operator.gate_on
OpGateOn(op, note, velocity) ==
    LET p == ParamsOf(op.params)
        adjusted == [i \in 1..4 |-> KeyRateScaling(p.rates[i], note, p.krs)]
    IN [op EXCEPT !.phase = 0,
                  !.env = EnvGateOn([op.env EXCEPT !.rates = adjusted])]

\* Operator.gate_off
OpGateOff(op) == [op EXCEPT !.env = EnvGateOff(op.env)]

\* Operator.is_active
OpIsActive(op) == EnvIsActive(op.env)

\* Operator.reset
OpReset(op) == [op EXCEPT !.phase = 0, !.env = EnvReset(op.env)]

\* Operator.render / render_with_feedback: the envelope block and the phase
\* accumulator (one phase unit per sample); out is the envelope block, the
\* bound of the magnitude of the rendered samples.
OpRendered(op, r, n) ==
    [op |-> [op EXCEPT !.env = r.env, !.phase = (op.phase + n) % PhaseMod],
     out |-> r.out]

OpRender(op, n) == OpRendered(op, EnvRender(op.env, n), n)

(***************************************************************************)
(* engine/lfo.py                                                           *)
(***************************************************************************)
\* LFO.__init__
NewLFO(key_sync) == [key_sync |-> key_sync, phase |-> 0, counter |-> 0]

\* LFO.gate_on
LfoGateOn(lfo) ==
    [lfo EXCEPT !.phase = IF lfo.key_sync THEN 0 ELSE lfo.phase,
                !.counter = 0]

\* LFO.render (one phase unit per sample)
LfoRender(lfo, n) ==
    [lfo EXCEPT !.phase = (lfo.phase + n) % LfoMod,
                !.counter = lfo.counter + n]

\* LFO.reset
LfoReset(lfo) == [lfo EXCEPT !.phase = 0, !.counter = 0]

(***************************************************************************)
(* engine/voice.py                                                         *)
(***************************************************************************)
ZeroFeedback == [i \in Ops |-> <<0, 0>>]

\* a remainder that keeps the sign of the dividend
TruncatedRemainder(x) ==
    IF x >= 0 THEN x % 32 ELSE 0 - ((0 - x) % 32)

\* Voice.load_preset, line 143: int(...) % 32
WrapAlgorithm(x) == x % 32

\* Voice.load_preset, line 144: int(np.clip(..., 0, 7))
ClipFeedback(x) == Clip(x, 0, 7)

\* Voice.load_preset (id: the index of the preset)
VoiceLoadPreset(v, id) ==
    LET preset == PresetOf(id) IN
    [v EXCEPT !.algorithm = WrapAlgorithm(preset.algorithm),
              !.feedback = ClipFeedback(preset.feedback),
              !.lfo = NewLFO(preset.key_sync),
              !.ops = [i \in Ops |->
                         NewOperator([preset |-> id, op |-> i])]]

\* Voice.__init__
NewVoice ==
    VoiceLoadPreset(
      [note |-> -1, velocity |-> 0, active |-> FALSE, gate |-> FALSE,
       age |-> 0, algorithm |-> 0, feedback |-> 0, pitch_bend |-> AmpOne,
       lfo |-> NewLFO(TRUE),
       ops |-> [i \in Ops |-> NewOperator([preset |-> 0, op |-> i])],
       fbuf |-> ZeroFeedback],
      0)

\* a gate_on that does not restart the age counter
VoiceGateOnKeepsAge(v, note, velocity) ==
    [v EXCEPT !.note = note, !.velocity = velocity, !.active = TRUE,
              !.gate = TRUE, !.fbuf = ZeroFeedback,
              !.ops = [i \in Ops |-> OpGateOn(v.ops[i], note, velocity)],
              !.lfo = LfoGateOn(v.lfo)]

\* Voice.gate_on
VoiceGateOn(v, note, velocity) ==
    [v EXCEPT !.note = note, !.velocity = velocity, !.active = TRUE,
              !.gate = TRUE, !.age = 0, !.fbuf = ZeroFeedback,
              !.ops = [i \in Ops |-> OpGateOn(v.ops[i], note, velocity)],
              !.lfo = LfoGateOn(v.lfo)]

\* Voice.gate_off
VoiceGateOff(v) ==
    [v EXCEPT !.gate = FALSE,
              !.ops = [i \in Ops |-> OpGateOff(v.ops[i])]]

\* Voice.is_active
VoiceIsActive(v) ==
    \/ v.gate
    \/ \E c \in Algo(v.algorithm).carriers : OpIsActive(v.ops[c])

\* a reset that leaves the active flag as it is
VoiceResetKeepsActive(v) ==
    [v EXCEPT !.note = -1, !.velocity = 0, !.gate = FALSE, !.age = 0,
              !.ops = [i \in Ops |-> OpReset(v.ops[i])],
              !.lfo = LfoReset(v.lfo),
              !.fbuf = ZeroFeedback]

\* Voice.reset
VoiceReset(v) ==
    [v EXCEPT !.note = -1, !.velocity = 0, !.active = FALSE, !.gate = FALSE,
              !.age = 0,
              !.ops = [i \in Ops |-> OpReset(v.ops[i])],
              !.lfo = LfoReset(v.lfo),
              !.fbuf = ZeroFeedback]

Zeros(n) == [k \in 1..n |-> 0]

RECURSIVE SumSet(_, _)
SumSet(f, S) ==
    IF S = {} THEN 0
    ELSE LET x == CHOOSE y \in S : TRUE IN f[x] + SumSet(f, S \ {x})

\* apply_algorithm, lines 440-451: the carriers' blocks are summed (the
\* division by sqrt(len(carriers)) of line 449 only lowers the magnitude)
MixCarriers(r, carriers, n) ==
    [ops |-> [i \in Ops |-> r[i].op],
     out |-> [k \in 1..n |-> SumSet([c \in Ops |-> r[c].out[k]], carriers)]]

\* apply_algorithm: every operator renders one block; the carriers are mixed.
ApplyAlgorithm(v, n) ==
    MixCarriers([i \in Ops |-> OpRender(v.ops[i], n)],
                Algo(v.algorithm).carriers, n)

\* Voice.render, lines 301-303: the voice goes inactive once it is released
\* and no carrier envelope is running
AfterBlock(v) ==
    IF ~v.gate /\ ~VoiceIsActive(v) THEN [v EXCEPT !.active = FALSE] ELSE v

\* Voice.render, lines 287-305: the call of apply_algorithm and what follows
Rendered(v, a) ==
    [voice |-> AfterBlock([v EXCEPT !.ops = a.ops]), kind |-> "ok",
     out |-> a.out]

RenderBlock(v, n) ==
    IF ~CallAccepted(VoiceRenderKwargs, ApplyAlgorithmParams)
    THEN [voice |-> v, kind |-> "TypeError", out |-> <<>>]
    ELSE Rendered(v, ApplyAlgorithm(v, n))

\* Voice.render: returns the voice and either the block or the exception
VoiceRender(v, n) ==
    IF ~v.active
    THEN [voice |-> v, kind |-> "ok", out |-> Zeros(n)]
    ELSE RenderBlock([v EXCEPT !.age = v.age + 1,
                               !.lfo = LfoRender(v.lfo, n)], n)

(***************************************************************************)
(* engine/synth.py                                                         *)
(***************************************************************************)
EmptyMap == [k \in {} |-> 0]
MapRemove(m, note) == [k \in DOMAIN m \ {note} |-> m[k]]
MapPut(m, note, idx) ==
    [k \in DOMAIN m \cup {note} |-> IF k = note THEN idx ELSE m[k]]

\* a voice the pool treats as sounding: "voice.is_active() or voice._active"
Sounding(v) == VoiceIsActive(v) \/ v.active

\* Synth._allocate_voice, step 2: one pass over the pool keeping the first
\* voice of strictly greatest age among the released and among the held ones
RECURSIVE AllocScan(_, _, _)
AllocScan(vs, i, best) ==
    IF i >= Polyphony THEN best
    ELSE IF ~vs[i].gate
    THEN AllocScan(vs, i + 1,
           IF vs[i].age > best.released_age
           THEN [best EXCEPT !.released_age = vs[i].age, !.released_idx = i]
           ELSE best)
    ELSE AllocScan(vs, i + 1,
           IF vs[i].age > best.held_age
           THEN [best EXCEPT !.held_age = vs[i].age, !.held_idx = i]
           ELSE best)

\* an allocator that never looks for an idle voice
AllocateSkipsIdle(vs) ==
    LET best == AllocScan(vs, 0, [released_idx |-> -1, released_age |-> -1,
                                  held_idx |-> -1, held_age |-> -1])
    IN IF best.released_idx >= 0 THEN best.released_idx
       ELSE IF best.held_idx >= 0 THEN best.held_idx
       ELSE 0

\* an allocator that steals a held voice before a released one
AllocatePrefersHeld(vs) ==
    LET idle == {i \in Voices : ~VoiceIsActive(vs[i]) /\ ~vs[i].active}
        best == AllocScan(vs, 0, [released_idx |-> -1, released_age |-> -1,
                                  held_idx |-> -1, held_age |-> -1])
    IN IF idle # {} THEN CHOOSE i \in idle : \A j \in idle : i <= j
       ELSE IF best.held_idx >= 0 THEN best.held_idx
       ELSE IF best.released_idx >= 0 THEN best.released_idx
       ELSE 0

\* Synth._allocate_voice
AllocateVoice(vs) ==
    LET idle == {i \in Voices : ~VoiceIsActive(vs[i]) /\ ~vs[i].active}
        best == AllocScan(vs, 0, [released_idx |-> -1, released_age |-> -1,
                                  held_idx |-> -1, held_age |-> -1])
    IN IF idle # {} THEN CHOOSE i \in idle : \A j \in idle : i <= j
       ELSE IF best.released_idx >= 0 THEN best.released_idx
       ELSE IF best.held_idx >= 0 THEN best.held_idx
       ELSE 0

\* a load_preset that steps every voice's algorithm on from where it was
LoadPresetStepsAlgorithm(s, id) ==
    [s EXCEPT !.preset = id,
              !.voices = [i \in Voices |->
                            [VoiceLoadPreset(s.voices[i], id) EXCEPT
                               !.algorithm =
                                  WrapAlgorithm(s.voices[i].algorithm + 1)]]]

\* Synth.load_preset
SynthLoadPreset(s, id) ==
    [s EXCEPT !.preset = id,
              !.voices = [i \in Voices |->
                            VoiceLoadPreset(s.voices[i], id)]]

\* a note_off that gates off voice 0 when the note is not in the map
NoteOffDefaultsToFirst(s, note) ==
    LET idx == IF note \in DOMAIN s.map THEN s.map[note] ELSE 0 IN
    [s EXCEPT !.map = MapRemove(s.map, note),
              !.voices[idx] = VoiceGateOff(s.voices[idx])]

\* Synth.note_off
SynthNoteOff(s, note) ==
    IF note \notin DOMAIN s.map THEN s
    ELSE LET idx == s.map[note] IN
         [s EXCEPT !.map = MapRemove(s.map, note),
                   !.voices[idx] = VoiceGateOff(s.voices[idx])]

\* a re-trigger that forgets the map entry but leaves the old voice gated
RetriggerKeepsGate(s, note) ==
    [s EXCEPT !.map = MapRemove(s.map, note)]

\* Synth.note_on, lines 96-99: release the voice already playing the note
ReleaseRetriggered(s, note) ==
    IF note \in DOMAIN s.map
    THEN LET old_idx == s.map[note] IN
         [s EXCEPT !.map = MapRemove(s.map, note),
                   !.voices[old_idx] = VoiceGateOff(s.voices[old_idx])]
    ELSE s

\* note_on that leaves the stolen voice's old note in the map
AssignVoiceKeepsStale(s, note, velocity, voice_idx) ==
    LET loaded == IF s.preset # NoPreset
                  THEN VoiceLoadPreset(s.voices[voice_idx], s.preset)
                  ELSE s.voices[voice_idx]
    IN [s EXCEPT !.map = MapPut(s.map, note, voice_idx),
                 !.voices[voice_idx] = VoiceGateOn(loaded, note, velocity)]

\* Synth.note_on, lines 101-119, for the voice index the allocator returned
AssignVoice(s, note, velocity, voice_idx) ==
    LET old_note == s.voices[voice_idx].note
        cleaned == IF /\ old_note >= 0
                      /\ old_note \in DOMAIN s.map
                      /\ s.map[old_note] = voice_idx
                   THEN MapRemove(s.map, old_note)
                   ELSE s.map
        loaded == IF s.preset # NoPreset
                  THEN VoiceLoadPreset(s.voices[voice_idx], s.preset)
                  ELSE s.voices[voice_idx]
    IN [s EXCEPT !.map = MapPut(cleaned, note, voice_idx),
                 !.voices[voice_idx] = VoiceGateOn(loaded, note, velocity)]

\* a note_on without the test of lines 92-94
NoteOnIgnoresZero(s, note, velocity) ==
    LET s1 == ReleaseRetriggered(s, note) IN
    AssignVoice(s1, note, velocity, AllocateVoice(s1.voices))

\* Synth.note_on
SynthNoteOn(s, note, velocity) ==
    IF velocity = 0 THEN SynthNoteOff(s, note)
    ELSE LET s1 == ReleaseRetriggered(s, note) IN
         AssignVoice(s1, note, velocity, AllocateVoice(s1.voices))

\* an all_notes_off that leaves the map as it is
AllNotesOffKeepsMap(s) ==
    [s EXCEPT !.voices = [i \in Voices |-> VoiceGateOff(s.voices[i])]]

\* Synth.all_notes_off
SynthAllNotesOff(s) ==
    [s EXCEPT !.voices = [i \in Voices |-> VoiceGateOff(s.voices[i])],
              !.map = EmptyMap]

\* Synth.panic
SynthPanic(s) ==
    [s EXCEPT !.voices = [i \in Voices |-> VoiceReset(s.voices[i])],
              !.map = EmptyMap]

\* mix += block
AddBlock(mix, block) == [k \in DOMAIN mix |-> mix[k] + block[k]]

\* Synth.render, the loop over the pool from voice i on; an exception raised
\* by Voice.render leaves the loop with the voices rendered so far
RECURSIVE RenderFrom(_, _, _, _)
Mixed(vs, i, mix, n, r) ==
    IF r.kind = "ok"
    THEN RenderFrom([vs EXCEPT ![i] = r.voice], i + 1, AddBlock(mix, r.out), n)
    ELSE [voices |-> [vs EXCEPT ![i] = r.voice], kind |-> r.kind,
          out |-> <<>>]

RenderFrom(vs, i, mix, n) ==
    IF i >= Polyphony
    THEN [voices |-> vs, kind |-> "ok",
          out |-> [k \in 1..n |->
                     Clip((mix[k] * MasterVolume) \div AmpOne,
                          0 - AmpOne, AmpOne)]]
    ELSE IF Sounding(vs[i])
    THEN Mixed(vs, i, mix, n, VoiceRender(vs[i], n))
    ELSE RenderFrom(vs, i + 1, mix, n)

\* Synth.render
SynthRender(s, n) ==
    LET r == RenderFrom(s.voices, 0, Zeros(n), n) IN
    [s |-> [s EXCEPT !.voices = r.voices], kind |-> r.kind, out |-> r.out]

\* a count that adds the voices with is_active() to those with _active set
CountsBothFlags(vs) ==
    Cardinality({i \in Voices : VoiceIsActive(vs[i])})
        + Cardinality({i \in Voices : vs[i].active})

\* Synth.active_voice_count
ActiveVoiceCount(vs) == Cardinality({i \in Voices : Sounding(vs[i])})

(***************************************************************************)
(* State                                                                   *)
(***************************************************************************)
VARIABLES
    voices,        \* Synth.voices
    noteToVoice,   \* Synth._note_to_voice
    currentPreset, \* Synth._current_preset
    last,          \* the last call: its arguments, what it chose, its result
    quiet,         \* "init" / "panic": no note_on with velocity > 0 since then
    gateOrder,     \* history: voices in the order of their latest gate_on
    block,         \* the render call in progress on the audio thread
    env,           \* an Envelope driven through its own public API
    envOp,         \* the last call made on env
    algo,          \* a patch on its way from load_preset to apply_algorithm
    audio,         \* the AudioEngine and the buffer of its last callback
    threads,       \* the control threads' positions inside Synth.note_on
    midi           \* the MidiHandler

\* the variables of the components modelled on their own
units == <<algo, audio, threads, midi>>

vars == <<voices, noteToVoice, currentPreset, last, quiet, gateOrder, block,
          env, envOp, units>>

synthVars ==
    <<voices, noteToVoice, currentPreset, last, quiet, gateOrder, block>>

Synth == [voices |-> voices, map |-> noteToVoice, preset |-> currentPreset]

\* no patch has been handed to the engine
NoAlgo ==
    [pc |-> "none", raw_algorithm |-> 0, raw_feedback |-> 0, algorithm |-> 0,
     feedback |-> 0, order |-> <<>>, appended |-> <<>>,
     mod_input |-> [i \in Ops |-> <<>>]]

\* AudioEngine.__init__ (volume in units of 1/AmpOne)
NewAudioEngine ==
    [render_callback |-> "none", running |-> FALSE, volume |-> 700,
     outdata |-> <<>>, result |-> "none"]

\* the threads that call the Synth: the MIDI listener and the GUI main loop
Threads == {"midi", "gui"}
\* a thread outside any Synth call; inside note_on it is at "assign" with
\* its arguments and the voice index _allocate_voice returned
IdleThread == [pc |-> "idle", note |-> -1, velocity |-> 0, voice_idx |-> 0]

\* MidiHandler.__init__; a port name or index that is None is <<>>, the
\* name of port i is <<i>>, result is what the last call returned
NewMidiHandler(available) ==
    [enabled |-> FALSE, midi_in |-> FALSE, port_index |-> <<>>,
     port_name |-> <<>>, callbacks |-> "none", available |-> available,
     result |-> FALSE]

UnitsInit ==
    /\ midi = NewMidiHandler(TRUE)
    /\ algo = NoAlgo
    /\ audio = NewAudioEngine
    /\ threads = [t \in Threads |-> IdleThread]

Held(v) == v.gate
Released(v) == ~v.gate /\ Sounding(v)
Inactive(v) == ~Sounding(v)

\* op: the call; case: for a note_on with velocity > 0 what the allocated
\* voice was when it was allocated ("idle", "released", "held"), for a note_off
\* and a note_on with velocity 0 whether the note was in the map ("mapped",
\* "unmapped"); n, kind, out: the block size of a render, how it ended and the
\* block it returned
NoCall == [op |-> "init", case |-> "none", n |-> 0, kind |-> "ok", out |-> <<>>]

\* no render call in progress; otherwise pc = "loop", n the block size, i the
\* voice the loop of Synth.render is at and mix the sum so far
NoBlock == [pc |-> "idle", n |-> 0, i |-> 0, mix |-> <<>>]

\* Synth.__init__
Init ==
    /\ voices = [i \in Voices |-> NewVoice]
    /\ noteToVoice = EmptyMap
    /\ currentPreset = NoPreset
    /\ last = NoCall
    /\ quiet = "init"
    /\ gateOrder = <<>>
    /\ block = NoBlock
    /\ env = NewEnvelope(<<99, 99, 99, 99>>, <<99, 99, 0, 0>>)
    /\ envOp = "init"
    /\ UnitsInit

Commit(s) ==
    /\ voices' = s.voices
    /\ noteToVoice' = s.map
    /\ currentPreset' = s.preset

MapCase(note) ==
    IF note \in DOMAIN noteToVoice THEN "mapped" ELSE "unmapped"

CaseOf(v) ==
    IF Inactive(v) THEN "idle" ELSE IF Released(v) THEN "released" ELSE "held"

LoadPresetCall(id) ==
    /\ Commit(SynthLoadPreset(Synth, id))
    /\ last' = [NoCall EXCEPT !.op = "load_preset"]
    /\ UNCHANGED quiet

NoteOnCall(note, velocity) ==
    LET pool == ReleaseRetriggered(Synth, note).voices IN
       /\ Commit(SynthNoteOn(Synth, note, velocity))
       /\ last' = [NoCall EXCEPT
                     !.op = "note_on",
                     !.case = IF velocity = 0 THEN MapCase(note)
                              ELSE CaseOf(pool[AllocateVoice(pool)])]
       /\ quiet' = IF velocity = 0 THEN quiet ELSE "no"

NoteOffCall(note) ==
    /\ Commit(SynthNoteOff(Synth, note))
    /\ last' = [NoCall EXCEPT !.op = "note_off", !.case = MapCase(note)]
    /\ UNCHANGED quiet

AllNotesOffCall ==
    /\ Commit(SynthAllNotesOff(Synth))
    /\ last' = [NoCall EXCEPT !.op = "all_notes_off"]
    /\ UNCHANGED quiet

PanicCall ==
    /\ Commit(SynthPanic(Synth))
    /\ last' = [NoCall EXCEPT !.op = "panic"]
    /\ quiet' = "panic"

\* the age counter is unbounded in the program
AgeBounded == \A i \in Voices : voices[i].age < MaxAge

RenderCall(n) ==
    /\ AgeBounded
    /\ LET r == SynthRender(Synth, n) IN
       /\ Commit(r.s)
       /\ last' = [NoCall EXCEPT !.op = "render", !.n = n,
                                 !.kind = r.kind, !.out = r.out]
    /\ UNCHANGED quiet

(***************************************************************************)
(* Spec: the calls of the Synth API, one at a time                         *)
(***************************************************************************)
LoadPreset(id) == LoadPresetCall(id) /\ UNCHANGED <<gateOrder, block, env, envOp, units>>
NoteOn(note, velocity) ==
    NoteOnCall(note, velocity) /\ UNCHANGED <<gateOrder, block, env, envOp, units>>
NoteOff(note) == NoteOffCall(note) /\ UNCHANGED <<gateOrder, block, env, envOp, units>>
AllNotesOff == AllNotesOffCall /\ UNCHANGED <<gateOrder, block, env, envOp, units>>
Panic == PanicCall /\ UNCHANGED <<gateOrder, block, env, envOp, units>>
Render(n) ==
    block.pc = "idle" /\ RenderCall(n) /\ UNCHANGED <<gateOrder, block, env, envOp, units>>

Next ==
    \/ \E id \in SpecPresets : LoadPreset(id)
    \/ \E note \in Notes, velocity \in Velocities : NoteOn(note, velocity)
    \/ \E note \in Notes : NoteOff(note)
    \/ AllNotesOff
    \/ Panic
    \/ \E n \in BlockSizes : Render(n)

Spec == Init /\ [][Next]_vars

\* SpecSync: the same calls, with the preset of load_preset drawn from both
\* presets: PresetB has key_sync off, a slower envelope and another algorithm
NextSync ==
    \/ \E id \in PresetIds : LoadPreset(id)
    \/ \E note \in Notes, velocity \in Velocities : NoteOn(note, velocity)
    \/ \E note \in Notes : NoteOff(note)
    \/ AllNotesOff
    \/ Panic
    \/ \E n \in BlockSizes : Render(n)

SpecSync == Init /\ [][NextSync]_vars

(***************************************************************************)
(* SpecAudio: the controller's wiring: GUI and MIDI callbacks call the     *)
(* Synth, the audio thread calls AudioEngine._audio_callback               *)
(***************************************************************************)
\* render callbacks: none, Synth.render (main.py:105), a callable that raises
RenderCallbacks == {"synth", "raises"}
\* parameters and values the panel sends (wheel positions in 1/AmpOne)
PanelParams == {"volume", "pitch_bend", "mod_wheel"}
PanelValues == {0, 250, 1500}
\* an _audio_callback without the try / except: an exception of the render
\* callback escapes and the buffer keeps what it held (555 here)
CallbackUnguarded(a, s, frames) ==
    IF a.render_callback = "none"
    THEN [audio |-> [a EXCEPT !.outdata = Hold(0, frames),
                              !.result = "returned"], s |-> s]
    ELSE IF a.render_callback = "raises"
    THEN [audio |-> [a EXCEPT !.outdata = Hold(555, frames),
                              !.result = "raised"], s |-> s]
    ELSE IF SynthRender(s, frames).kind # "ok"
    THEN [audio |-> [a EXCEPT !.outdata = Hold(555, frames),
                              !.result = "raised"],
          s |-> SynthRender(s, frames).s]
    ELSE [audio |-> [a EXCEPT !.outdata = SynthRender(s, frames).out,
                              !.result = "returned"],
          s |-> SynthRender(s, frames).s]

\* AudioEngine._audio_callback: the engine with the buffer it leaves, and the
\* synth after the render callback ran
AudioCallback(a, s, frames) ==
    IF a.render_callback = "none"
    THEN [audio |-> [a EXCEPT !.outdata = Hold(0, frames),
                              !.result = "returned"], s |-> s]
    ELSE IF a.render_callback = "raises"
    THEN [audio |-> [a EXCEPT !.outdata = Hold(0, frames),
                              !.result = "returned"], s |-> s]
    ELSE IF SynthRender(s, frames).kind # "ok"
    THEN [audio |-> [a EXCEPT !.outdata = Hold(0, frames),
                              !.result = "returned"],
          s |-> SynthRender(s, frames).s]
    ELSE [audio |->
            [a EXCEPT !.outdata =
                        [k \in 1..frames |->
                           Clip((SynthRender(s, frames).out[k] * a.volume)
                                    \div AmpOne, 0 - AmpOne, AmpOne)],
                      !.result = "returned"],
          s |-> SynthRender(s, frames).s]

\* AudioEngine.set_render_callback
SetRenderCallback(cb) ==
    /\ audio' = [audio EXCEPT !.render_callback = cb]
    /\ UNCHANGED <<synthVars, env, envOp, algo, threads, midi>>

\* AudioEngine.start
AudioStart ==
    /\ audio' = [audio EXCEPT !.running = TRUE]
    /\ UNCHANGED <<synthVars, env, envOp, algo, threads, midi>>

\* AudioEngine.destroy: stop(), then the callback is cleared
AudioDestroy ==
    /\ audio' = [audio EXCEPT !.running = FALSE, !.render_callback = "none"]
    /\ UNCHANGED <<synthVars, env, envOp, algo, threads, midi>>

\* the audio thread runs _audio_callback (a last callback can still arrive
\* after destroy)
AudioCallbackRuns(frames) ==
    /\ AgeBounded
    /\ audio' = AudioCallback(audio, Synth, frames).audio
    /\ Commit(AudioCallback(audio, Synth, frames).s)
    /\ last' = [NoCall EXCEPT !.op = "audio_callback", !.n = frames]
    /\ UNCHANGED <<quiet, gateOrder, block, env, envOp, algo, threads, midi>>

\* VX7Controller._on_param_change, for the parameters in PanelParams
ParamChange(param, value) ==
    /\ audio' = IF param = "volume"
                THEN [audio EXCEPT !.volume = Clip(value, 0, AmpOne)]
                ELSE audio
    /\ last' = [NoCall EXCEPT !.op = "param_change", !.case = param,
                              !.n = value]
    /\ UNCHANGED <<voices, noteToVoice, currentPreset, quiet, gateOrder,
                   block, env, envOp, algo, threads, midi>>

NextAudio ==
    \/ \E note \in Notes, velocity \in Velocities : NoteOn(note, velocity)
    \/ \E note \in Notes : NoteOff(note)
    \/ Panic
    \/ \E param \in PanelParams, value \in PanelValues :
         ParamChange(param, value)
    \/ \E cb \in RenderCallbacks : SetRenderCallback(cb)
    \/ AudioStart
    \/ AudioDestroy
    \/ \E n \in BlockSizes : AudioCallbackRuns(n)

SpecAudio == Init /\ [][NextAudio]_vars

(***************************************************************************)
(* SpecThreads: the MIDI thread and the GUI thread call note_on and        *)
(* note_off; the Synth takes no lock, so a thread can be preempted between *)
(* the statements of note_on                                               *)
(***************************************************************************)
\* Synth.note_on, lines 92-102: the velocity test (a zero velocity is the
\* whole note_off), the release of a re-triggered note and the allocation
NoteOnEnter(t, note, velocity) ==
    /\ threads[t].pc = "idle"
    /\ IF velocity = 0
       THEN /\ Commit(SynthNoteOff(Synth, note))
            /\ UNCHANGED threads
       ELSE /\ Commit(ReleaseRetriggered(Synth, note))
            /\ threads' =
                 [threads EXCEPT
                    ![t] = [pc |-> "assign", note |-> note,
                            velocity |-> velocity,
                            voice_idx |->
                              AllocateVoice(
                                ReleaseRetriggered(Synth, note).voices)]]
    /\ last' = [NoCall EXCEPT !.op = "note_on", !.case = "enter"]
    /\ UNCHANGED <<quiet, gateOrder, block, env, envOp, algo, audio, midi>>

\* Synth.note_on, lines 104-119: the map is updated and the voice gated on
NoteOnAssign(t) ==
    /\ threads[t].pc = "assign"
    /\ Commit(AssignVoice(Synth, threads[t].note, threads[t].velocity,
                          threads[t].voice_idx))
    /\ threads' = [threads EXCEPT ![t] = IdleThread]
    /\ last' = [NoCall EXCEPT !.op = "note_on", !.case = "assign"]
    /\ quiet' = "no"
    /\ UNCHANGED <<gateOrder, block, env, envOp, algo, audio, midi>>

\* Synth.note_off called by thread t
NoteOffBy(t, note) ==
    /\ threads[t].pc = "idle"
    /\ NoteOffCall(note)
    /\ UNCHANGED <<gateOrder, block, env, envOp, units>>

NextThreads ==
    \/ \E t \in Threads, note \in Notes, velocity \in Velocities :
         NoteOnEnter(t, note, velocity)
    \/ \E t \in Threads : NoteOnAssign(t)
    \/ \E t \in Threads, note \in Notes : NoteOffBy(t, note)

SpecThreads == Init /\ [][NextThreads]_vars

(***************************************************************************)
(* SpecMidi: the MidiHandler, its port opened, closed, enabled and         *)
(* disabled from the GUI, and its listener delivering notes to the Synth   *)
(***************************************************************************)
\* the input ports the system has, and the indexes a caller may pass
MidiPorts == {0, 1}
PortIndexes == (0 - 1)..2

\* MidiHandler._close_port_locked
ClosePortLocked(h) ==
    IF h.midi_in
    THEN [h EXCEPT !.midi_in = FALSE, !.port_index = <<>>, !.port_name = <<>>]
    ELSE h

\* MidiHandler._open_port_locked; fails: rtmidi raises while opening
OpenPortLocked(h, port_index, fails) ==
    IF port_index \notin MidiPorts
    THEN [ClosePortLocked(h) EXCEPT !.result = FALSE]
    ELSE IF fails
    THEN [ClosePortLocked(h) EXCEPT !.midi_in = FALSE, !.port_index = <<>>,
                                    !.port_name = <<>>, !.result = FALSE]
    ELSE [ClosePortLocked(h) EXCEPT !.midi_in = TRUE,
                                    !.port_index = <<port_index>>,
                                    !.port_name = <<port_index>>,
                                    !.result = TRUE]

\* MidiHandler.open_port
MidiOpenPort(h, port_index, fails) ==
    IF ~h.available THEN [h EXCEPT !.result = FALSE]
    ELSE OpenPortLocked(h, port_index, fails)

\* MidiHandler.enable
MidiEnable(h, port_index, fails) ==
    IF ~h.available THEN [h EXCEPT !.result = FALSE]
    ELSE IF ~OpenPortLocked(h, port_index, fails).result
    THEN OpenPortLocked(h, port_index, fails)
    ELSE [OpenPortLocked(h, port_index, fails) EXCEPT !.enabled = TRUE]

\* MidiHandler.disable
MidiDisable(h) == ClosePortLocked([h EXCEPT !.enabled = FALSE])

\* MidiHandler.destroy
MidiDestroy(h) ==
    ClosePortLocked([h EXCEPT !.enabled = FALSE, !.callbacks = "none"])

\* a call on the handler that leaves it as h
MidiStep(h) ==
    /\ midi' = h
    /\ UNCHANGED <<synthVars, env, envOp, algo, audio, threads>>

\* MidiHandler._midi_callback for a three-byte message of an open port, with
\* the callbacks VX7Controller sets (note_on, note_off, no cc)
MidiCallback(status, note, velocity) ==
    /\ midi.midi_in
    /\ IF midi.enabled /\ midi.callbacks = "synth" /\ status = "note_on"
       THEN IF velocity = 0 THEN NoteOffCall(note)
            ELSE NoteOnCall(note, velocity)
       ELSE IF midi.enabled /\ midi.callbacks = "synth"
                 /\ status = "note_off"
       THEN NoteOffCall(note)
       ELSE UNCHANGED <<voices, noteToVoice, currentPreset, last, quiet>>
    /\ UNCHANGED <<gateOrder, block, env, envOp, units>>

NextMidi ==
    \/ \E port_index \in PortIndexes, fails \in BOOLEAN :
         MidiStep(MidiEnable(midi, port_index, fails))
    \/ MidiStep(MidiDisable(midi))
    \/ \E port_index \in PortIndexes, fails \in BOOLEAN :
         MidiStep(MidiOpenPort(midi, port_index, fails))
    \/ MidiStep(ClosePortLocked(midi))
    \/ MidiStep(MidiDestroy(midi))
    \/ MidiStep([midi EXCEPT !.callbacks = "synth"])
    \/ \E status \in {"note_on", "note_off", "cc"}, note \in Notes,
          velocity \in Velocities : MidiCallback(status, note, velocity)

SpecMidi == Init /\ [][NextMidi]_vars

(***************************************************************************)
(* SpecAlgo: a patch with integers drawn from RawAlgorithms and            *)
(* RawFeedbacks is loaded into a voice and rendered by apply_algorithm     *)
(***************************************************************************)
RawAlgorithms == (0 - 33)..64
RawFeedbacks == (0 - 1)..9

InitAlgo ==
    /\ voices = [i \in Voices |-> NewVoice]
    /\ noteToVoice = EmptyMap
    /\ currentPreset = NoPreset
    /\ last = NoCall
    /\ quiet = "init"
    /\ gateOrder = <<>>
    /\ block = NoBlock
    /\ env = NewEnvelope(<<99, 99, 99, 99>>, <<99, 99, 0, 0>>)
    /\ envOp = "init"
    /\ audio = NewAudioEngine
    /\ threads = [t \in Threads |-> IdleThread]
    /\ midi = NewMidiHandler(TRUE)
    /\ algo \in {[NoAlgo EXCEPT !.pc = "preset", !.raw_algorithm = a,
                                !.raw_feedback = f] :
                    a \in RawAlgorithms, f \in RawFeedbacks}

\* Voice.load_preset, lines 143-144
PatchLoad ==
    /\ algo.pc = "preset"
    /\ algo' = [algo EXCEPT !.pc = "loaded",
                            !.algorithm = WrapAlgorithm(algo.raw_algorithm),
                            !.feedback = ClipFeedback(algo.raw_feedback)]
    /\ UNCHANGED <<synthVars, env, envOp, audio, threads, midi>>

\* ALGORITHMS[algorithm_index], a Python list lookup
LookupOK(index) == index \in (0 - 32)..31

\* apply_algorithm on the loaded voice
PatchRender ==
    /\ algo.pc = "loaded"
    /\ algo' =
         IF ~LookupOK(algo.algorithm)
         THEN [algo EXCEPT !.pc = "IndexError"]
         ELSE [algo EXCEPT
                 !.pc = "rendered",
                 !.order = RENDER_ORDERS[algo.algorithm % 32],
                 !.appended = Missing(KahnOrder(Algo(algo.algorithm % 32))),
                 !.mod_input =
                     ModInputs(Algo(algo.algorithm % 32), algo.feedback,
                               RENDER_ORDERS[algo.algorithm % 32], 1,
                               [i \in Ops |-> <<>>])]
    /\ UNCHANGED <<synthVars, env, envOp, audio, threads, midi>>

NextAlgo == PatchLoad \/ PatchRender

SpecAlgo == InitAlgo /\ [][NextAlgo]_vars

\* SpecOps: the calls of the Synth API that gate and configure voices, and
\* Operator.render called on an operator of a voice (voice.operators is a
\* public attribute; Voice.render does not get as far as its operators)
RenderedOps == {0}
OpBlockSizes == {30}

OperatorRender(i, o, n) ==
    /\ voices' = [voices EXCEPT ![i].ops[o] = OpRender(@, n).op]
    /\ last' = [NoCall EXCEPT !.op = "operator_render", !.n = n]
    /\ UNCHANGED <<noteToVoice, currentPreset, quiet, gateOrder, block,
                   env, envOp, units>>

NextOps ==
    \/ \E id \in SpecPresets : LoadPreset(id)
    \/ \E note \in Notes, velocity \in Velocities : NoteOn(note, velocity)
    \/ \E note \in Notes : NoteOff(note)
    \/ \E i \in Voices, o \in RenderedOps, n \in OpBlockSizes :
         OperatorRender(i, o, n)

SpecOps == Init /\ [][NextOps]_vars

(***************************************************************************)
(* SpecOrder: the same calls, with the order of the gate_on calls recorded *)
(***************************************************************************)
\* gateOrder lists the voices by their latest gate_on, the earliest first
NoteOnOrdered(note, velocity) ==
    /\ NoteOnCall(note, velocity)
    /\ gateOrder' =
         IF velocity = 0 THEN gateOrder
         ELSE Append(SelectSeq(gateOrder,
                               LAMBDA i : i # noteToVoice'[note]),
                     noteToVoice'[note])
    /\ UNCHANGED <<block, env, envOp, units>>

PanicOrdered ==
    PanicCall /\ gateOrder' = <<>> /\ UNCHANGED <<block, env, envOp, units>>

NextOrder ==
    \/ \E id \in SpecPresets : LoadPreset(id)
    \/ \E note \in Notes, velocity \in Velocities : NoteOnOrdered(note, velocity)
    \/ \E note \in Notes : NoteOff(note)
    \/ AllNotesOff
    \/ PanicOrdered
    \/ \E n \in BlockSizes : Render(n)

SpecOrder == Init /\ [][NextOrder]_vars

(***************************************************************************)
(* SpecConc: the audio thread runs Synth.render voice by voice while the   *)
(* control thread calls the Synth; the Synth takes no lock                 *)
(***************************************************************************)
\* Synth.render, line 165: the mix buffer is allocated
RenderBegin(n) ==
    /\ block.pc = "idle"
    /\ AgeBounded
    /\ block' = [pc |-> "loop", n |-> n, i |-> 0, mix |-> Zeros(n)]
    /\ UNCHANGED <<voices, noteToVoice, currentPreset, last, quiet, gateOrder,
                   env, envOp, units>>

\* Synth.render, lines 166-168: one iteration of the loop over the pool
RenderVoice ==
    /\ block.pc = "loop"
    /\ block.i < Polyphony
    /\ IF Sounding(voices[block.i])
       THEN LET r == VoiceRender(voices[block.i], block.n) IN
            /\ voices' = [voices EXCEPT ![block.i] = r.voice]
            /\ IF r.kind = "ok"
               THEN /\ block' = [block EXCEPT !.i = block.i + 1,
                                             !.mix = AddBlock(block.mix, r.out)]
                    /\ UNCHANGED last
               ELSE /\ block' = NoBlock
                    /\ last' = [NoCall EXCEPT !.op = "render", !.n = block.n,
                                              !.kind = r.kind]
       ELSE /\ block' = [block EXCEPT !.i = block.i + 1]
            /\ UNCHANGED <<voices, last>>
    /\ UNCHANGED <<noteToVoice, currentPreset, quiet, gateOrder, env, envOp, units>>

\* Synth.render, lines 170-176: master volume, clip, return
RenderEnd ==
    /\ block.pc = "loop"
    /\ block.i >= Polyphony
    /\ last' = [NoCall EXCEPT
                  !.op = "render", !.n = block.n,
                  !.out = [k \in 1..block.n |->
                             Clip((block.mix[k] * MasterVolume) \div AmpOne,
                                  0 - AmpOne, AmpOne)]]
    /\ block' = NoBlock
    /\ UNCHANGED <<voices, noteToVoice, currentPreset, quiet, gateOrder,
                   env, envOp, units>>

NextConc ==
    \/ \E id \in SpecPresets : LoadPreset(id)
    \/ \E note \in Notes, velocity \in Velocities : NoteOn(note, velocity)
    \/ \E note \in Notes : NoteOff(note)
    \/ AllNotesOff
    \/ Panic
    \/ \E n \in BlockSizes : RenderBegin(n)
    \/ RenderVoice
    \/ RenderEnd

SpecConc == Init /\ [][NextConc]_vars

(***************************************************************************)
(* SpecRace: SpecConc with Voice.render itself in steps, so that a control *)
(* call can fall between its statements                                    *)
(***************************************************************************)
\* Synth.render, line 167, and Voice.render, lines 264-271: the voice is
\* skipped, returns zeros, or ages and renders its LFO
VoiceRenderEnter ==
    /\ block.pc = "loop"
    /\ block.i < Polyphony
    /\ IF Sounding(voices[block.i]) /\ voices[block.i].active
       THEN /\ voices' = [voices EXCEPT
                            ![block.i].age = voices[block.i].age + 1,
                            ![block.i].lfo =
                               LfoRender(voices[block.i].lfo, block.n)]
            /\ block' = [block EXCEPT !.pc = "apply"]
       ELSE /\ block' = [block EXCEPT !.i = block.i + 1]
            /\ UNCHANGED voices
    /\ UNCHANGED <<noteToVoice, currentPreset, last, quiet, gateOrder, env,
                   envOp, units>>

\* Voice.render, lines 287-302: the call of apply_algorithm, which raises or
\* renders the operators, and the evaluation of the test of line 302
VoiceRenderApply ==
    /\ block.pc = "apply"
    /\ IF ~CallAccepted(VoiceRenderKwargs, ApplyAlgorithmParams)
       THEN /\ block' = [block EXCEPT !.pc = "raise"]
            /\ UNCHANGED voices
       ELSE LET a == ApplyAlgorithm(voices[block.i], block.n)
                v == [voices[block.i] EXCEPT !.ops = a.ops]
            IN /\ voices' = [voices EXCEPT ![block.i] = v]
               /\ block' = [block EXCEPT
                              !.mix = AddBlock(block.mix, a.out),
                              !.pc = IF ~v.gate /\ ~VoiceIsActive(v)
                                     THEN "deactivate" ELSE "return"]
    /\ UNCHANGED <<noteToVoice, currentPreset, last, quiet, gateOrder, env,
                   envOp, units>>

\* Voice.render is left: the exception ends Synth.render, or line 303
\* clears the active flag, or the block is returned as it is
VoiceRenderLeave ==
    /\ block.pc \in {"raise", "deactivate", "return"}
    /\ IF block.pc = "raise"
       THEN /\ block' = NoBlock
            /\ last' = [NoCall EXCEPT !.op = "render", !.n = block.n,
                                      !.kind = "TypeError"]
            /\ UNCHANGED voices
       ELSE /\ block' = [block EXCEPT !.pc = "loop", !.i = block.i + 1]
            /\ voices' = IF block.pc = "deactivate"
                         THEN [voices EXCEPT ![block.i].active = FALSE]
                         ELSE voices
            /\ UNCHANGED last
    /\ UNCHANGED <<noteToVoice, currentPreset, quiet, gateOrder, env, envOp,
                   units>>

NextRace ==
    \/ \E id \in SpecPresets : LoadPreset(id)
    \/ \E note \in Notes, velocity \in Velocities : NoteOn(note, velocity)
    \/ \E note \in Notes : NoteOff(note)
    \/ Panic
    \/ \E n \in BlockSizes : RenderBegin(n)
    \/ VoiceRenderEnter
    \/ VoiceRenderApply
    \/ VoiceRenderLeave
    \/ RenderEnd

SpecRace == Init /\ [][NextRace]_vars

(***************************************************************************)
(* SpecEnv: one Envelope, built with rates and levels drawn from EnvRates  *)
(* and EnvLevels, and driven by gate_on, gate_off, render and reset        *)
(***************************************************************************)
EnvRates == {<<99, 99, 99, 99>>}
EnvLevels == {0, 75, 99}
EnvSlowRelease == {<<99, 71, 99, 50>>}
EnvSlowLevels == {<<50, 25, 25, 0>>, <<25, 50, 0, 25>>}
EnvBlockSizes == {1, 30}
EnvInputs ==
    {NewEnvelope(r, l) : r \in EnvRates, l \in [1..4 -> EnvLevels]}
        \cup {NewEnvelope(r, l) : r \in EnvSlowRelease, l \in EnvSlowLevels}

InitEnv ==
    /\ voices = [i \in Voices |-> NewVoice]
    /\ noteToVoice = EmptyMap
    /\ currentPreset = NoPreset
    /\ last = NoCall
    /\ quiet = "init"
    /\ gateOrder = <<>>
    /\ block = NoBlock
    /\ env \in EnvInputs
    /\ envOp = "init"
    /\ UnitsInit

EnvelopeGateOn ==
    /\ env' = EnvGateOn(env)
    /\ envOp' = "gate_on"
    /\ UNCHANGED <<synthVars, units>>

EnvelopeGateOff ==
    /\ env' = EnvGateOff(env)
    /\ envOp' = "gate_off"
    /\ UNCHANGED <<synthVars, units>>

EnvelopeRender(n) ==
    /\ env' = EnvRender(env, n).env
    /\ envOp' = "render"
    /\ UNCHANGED <<synthVars, units>>

EnvelopeReset ==
    /\ env' = EnvReset(env)
    /\ envOp' = "reset"
    /\ UNCHANGED <<synthVars, units>>

NextEnv ==
    \/ EnvelopeGateOn
    \/ EnvelopeGateOff
    \/ \E n \in EnvBlockSizes : EnvelopeRender(n)
    \/ EnvelopeReset

SpecEnv == InitEnv /\ [][NextEnv]_vars

\* SpecEnvFair: the same calls, with render called again and again (the audio
\* callback asks for one block after the other)
EnvFairLevels == {0, 99}
EnvFairInputs ==
    {NewEnvelope(r, l) : r \in EnvRates, l \in [1..4 -> EnvFairLevels]}
        \cup {NewEnvelope(r, l) : r \in EnvSlowRelease, l \in EnvSlowLevels}

InitEnvFair == InitEnv /\ env \in EnvFairInputs

SpecEnvFair ==
    /\ InitEnvFair
    /\ [][NextEnv]_vars
    /\ WF_vars(\E n \in EnvBlockSizes : EnvelopeRender(n))

(***************************************************************************)
(* Properties                                                              *)
(***************************************************************************)
\* C1: after any sequence of note_on, note_off, all_notes_off, panic,
\* load_preset and render calls, every entry note -> i of the map names a
\* voice i whose note is that note and whose gate is held, and no two entries
\* name the same voice.
MapHoldsNotes ==
    /\ \A note \in DOMAIN noteToVoice :
         /\ noteToVoice[note] \in Voices
         /\ voices[noteToVoice[note]].note = note
         /\ voices[noteToVoice[note]].gate
    /\ \A a, b \in DOMAIN noteToVoice :
         noteToVoice[a] = noteToVoice[b] => a = b

\* a note_on has just stolen a held voice while every voice was mapped
MapHoldsNotesWitness ==
    /\ last.op = "note_on"
    /\ last.case = "held"
    /\ Cardinality(DOMAIN noteToVoice) = Polyphony

\* C2: after any sequence of events, render(n) returns normally with a block of
\* exactly n samples, each in [-1, +1], also when voices are active.
RenderReturnsBlock ==
    last.op = "render" =>
        /\ last.kind = "ok"
        /\ Len(last.out) = last.n
        /\ \A k \in 1..Len(last.out) :
             last.out[k] >= 0 - AmpOne /\ last.out[k] <= AmpOne

\* the configuration of a voice a render block reads
Config(v) ==
    [ops |-> v.ops, lfo |-> v.lfo, algorithm |-> v.algorithm,
     note |-> v.note, gate |-> v.gate, active |-> v.active]

\* C3: between the start and the end of a render call no call of the control
\* thread changes a voice's operators, LFO, algorithm, note, gate or active
\* flag (a step that leaves the block where it is is a control-thread step).
BlockSeesNoMutation ==
    [][(block.pc = "loop" /\ block' = block)
          => \A i \in Voices : Config(voices'[i]) = Config(voices[i])]_vars

\* C4: a released voice stays active while a carrier envelope is running, and a
\* render(n) during which every carrier envelope of a released voice reaches
\* Idle leaves that voice not active, so that it is allocated as an idle voice.
ReleasedVoiceGoesIdle ==
    [][\A n \in BlockSizes :
          Render(n) =>
              \A i \in Voices :
                  ~voices[i].gate /\ Sounding(voices[i]) =>
                      (Inactive(voices'[i]) <=>
                          \A c \in Algo(voices[i].algorithm).carriers :
                              EnvRender(voices[i].ops[c].env, n).env.stage
                                  = IDLE)]_vars

\* C5: whenever a voice is inactive when note_on(note, velocity > 0) is called,
\* the voice the note is given to was inactive, and every voice sounding another
\* note, and every other entry of the map, is left as it was.
IdleVoiceChosen ==
    \A note \in Notes, velocity \in Velocities \ {0} :
        (\E i \in Voices : Inactive(voices[i])) =>
            LET s == SynthNoteOn(Synth, note, velocity) IN
            /\ Inactive(voices[s.map[note]])
            /\ \A w \in Voices :
                 Sounding(voices[w]) /\ voices[w].note # note
                     => s.voices[w] = voices[w]
            /\ \A m \in DOMAIN noteToVoice \ {note} :
                 m \in DOMAIN s.map /\ s.map[m] = noteToVoice[m]

\* a note_on has just taken an idle voice while another note is held
IdleVoiceChosenWitness ==
    /\ last.op = "note_on"
    /\ last.case = "idle"
    /\ Cardinality(DOMAIN noteToVoice) >= 2

OldestHeldStolen ==
    [][\A note \in Notes \ DOMAIN noteToVoice, velocity \in Velocities \ {0} :
          (NoteOnOrdered(note, velocity) /\ \A i \in Voices : voices[i].gate)
              => /\ ActiveVoiceCount(voices') = Polyphony
                 /\ noteToVoice'[note] = Head(gateOrder)]_vars

\* C8: note_off of a note that is not in the map changes neither the map nor
\* any voice.
UnknownNoteOffNoOp ==
    \A note \in Notes \ DOMAIN noteToVoice : SynthNoteOff(Synth, note) = Synth

\* a note_off of an unmapped note has just returned while other notes are held
UnknownNoteOffNoOpWitness ==
    /\ last.op = "note_off"
    /\ last.case = "unmapped"
    /\ \E i \in Voices : voices[i].gate

\* C9: note_on(note, 0) leads to the state note_off(note) leads to, and gates
\* no voice on.
ZeroVelocityIsNoteOff ==
    \A note \in Notes :
        LET s == SynthNoteOn(Synth, note, 0) IN
        /\ s = SynthNoteOff(Synth, note)
        /\ \A i \in Voices : s.voices[i].gate => voices[i].gate

\* a note_on with velocity 0 has just released a held note
ZeroVelocityIsNoteOffWitness ==
    /\ last.op = "note_on"
    /\ last.case = "mapped"
    /\ \E i \in Voices : ~voices[i].gate /\ Sounding(voices[i])

\* C10: from construction or a panic until the next note_on with velocity > 0,
\* every voice is inactive with gate false and note -1, every envelope is Idle
\* at amplitude 0, every operator phase is 0, the map is empty, and each
\* render(n) returns exactly n zero samples.
SilentUntilNoteOn ==
    quiet # "no" =>
        /\ \A i \in Voices :
             /\ ~voices[i].active /\ ~voices[i].gate /\ voices[i].note = -1
             /\ ~VoiceIsActive(voices[i])
             /\ \A o \in Ops :
                  /\ voices[i].ops[o].env.stage = IDLE
                  /\ voices[i].ops[o].env.cur = 0
                  /\ voices[i].ops[o].phase = 0
        /\ noteToVoice = EmptyMap
        /\ last.op = "render" => last.kind = "ok" /\ last.out = Zeros(last.n)

\* a block of two samples has been rendered after a panic
SilentUntilNoteOnWitness ==
    /\ quiet = "panic"
    /\ last.op = "render"
    /\ last.n = 2
    /\ last.out = <<0, 0>>

\* C11: after all_notes_off no voice has its gate held and the map is empty,
\* and a second all_notes_off right after the first leaves the state,
\* every envelope field included, as the first left it.
AllNotesOffIdempotent ==
    LET s == SynthAllNotesOff(Synth) IN
    /\ \A i \in Voices : ~s.voices[i].gate
    /\ s.map = EmptyMap
    /\ SynthAllNotesOff(s) = s

\* an all_notes_off has just released a voice whose envelopes are in Release
AllNotesOffIdempotentWitness ==
    /\ last.op = "all_notes_off"
    /\ \E i \in Voices :
         /\ voices[i].active /\ ~voices[i].gate
         /\ \A o \in Ops : voices[i].ops[o].env.stage = RELEASE

\* C12: after note_on(note, velocity > 0) the voice mapped to the note has the
\* note and the velocity, is active with its gate held and age 0, has its six
\* feedback buffers zero, every operator phase 0 and every operator envelope
\* in Attack with the value of L4 as the start of the ramp towards L1; and the
\* voice is still active after the render call that follows.
NoteOnTriggersVoice ==
    \A note \in Notes, velocity \in Velocities \ {0} :
        LET s == SynthNoteOn(Synth, note, velocity)
            v == s.voices[s.map[note]]
        IN /\ note \in DOMAIN s.map
           /\ v.note = note /\ v.velocity = velocity
           /\ v.active /\ v.gate /\ v.age = 0
           /\ v.fbuf = ZeroFeedback
           /\ \A o \in Ops :
                /\ v.ops[o].phase = 0
                /\ v.ops[o].env.stage = ATTACK
                /\ v.ops[o].env.target = LevelAmp(v.ops[o].env.levels[1])
                /\ v.ops[o].env.cur = LevelAmp(v.ops[o].env.levels[4])
                /\ v.ops[o].env.incNum = v.ops[o].env.target - v.ops[o].env.cur
           /\ \A n \in BlockSizes :
                LET r == SynthRender(s, n).s.voices[s.map[note]]
                IN r.active /\ VoiceIsActive(r)

\* a note_on has just retriggered a released voice that had been rendered
NoteOnTriggersVoiceWitness ==
    /\ last.op = "note_on"
    /\ last.case = "released"
    /\ \E note \in DOMAIN noteToVoice :
         /\ voices[noteToVoice[note]].age = 0
         /\ \E i \in Voices : voices[i].age > 0

\* C13: active_voice_count never exceeds the polyphony the synth was built
\* with, and the voice pool keeps the size it was built with.
PolyphonyBound ==
    /\ DOMAIN voices = Voices
    /\ Cardinality(DOMAIN voices) = Polyphony
    /\ ActiveVoiceCount(voices) <= Polyphony

\* a note_on has just stolen a held voice: every voice of the pool is sounding
PolyphonyBoundWitness ==
    /\ last.op = "note_on"
    /\ last.case = "held"
    /\ ActiveVoiceCount(voices) = Polyphony

\* C14: in every reachable state, a voice that is active has its gate held or
\* has a carrier of its current algorithm whose envelope is not Idle.
ActiveImpliesSounding ==
    \A i \in Voices :
        voices[i].active =>
            \/ voices[i].gate
            \/ \E c \in Algo(voices[i].algorithm).carriers :
                 voices[i].ops[c].env.stage # IDLE

\* C15: the stage of an envelope changes only like this: gate_on enters Attack
\* with the value of L4 from any stage; render goes from Attack to Decay1 to
\* Sustain (Decay2), possibly through several of them in one call, stays in
\* Sustain, and goes from Release to Idle; gate_off enters Release from every
\* stage but Idle, where it changes nothing; reset enters Idle.  No call but
\* gate_off enters Release.
RenderMoves ==
    {<<IDLE, IDLE>>, <<ATTACK, ATTACK>>, <<ATTACK, DECAY1>>,
     <<ATTACK, DECAY2>>, <<DECAY1, DECAY1>>, <<DECAY1, DECAY2>>,
     <<DECAY2, DECAY2>>, <<RELEASE, RELEASE>>, <<RELEASE, IDLE>>}

StageTransitions ==
    [][/\ envOp' = "gate_on" =>
            /\ env'.stage = ATTACK
            /\ env'.cur = LevelAmp(env.levels[4])
       /\ envOp' = "gate_off" =>
            IF env.stage = IDLE THEN env' = env ELSE env'.stage = RELEASE
       /\ envOp' = "reset" => env'.stage = IDLE
       /\ envOp' = "render" => <<env.stage, env'.stage>> \in RenderMoves
       /\ env'.stage = RELEASE /\ env.stage # RELEASE => envOp' = "gate_off"
      ]_vars

\* a render has just completed a Release: the envelope is Idle at L4 > 0
StageTransitionsWitness ==
    /\ envOp = "render"
    /\ env.stage = IDLE
    /\ env.levels[4] > 0
    /\ env.cur = LevelAmp(env.levels[4])

\* C16: when render is called again and again, an envelope in Release reaches
\* Idle after finitely many calls unless a gate_on restarts it, for every
\* rates and levels; and an Idle envelope stays Idle under every call but
\* gate_on.
ReleaseReachesIdle ==
    /\ (env.stage = RELEASE) ~> (env.stage = IDLE \/ envOp = "gate_on")
    /\ [][env.stage = IDLE /\ envOp' # "gate_on" => env'.stage = IDLE]_vars

\* a Release at the slower rate has run to its end in several render calls
ReleaseReachesIdleWitness ==
    /\ envOp = "render"
    /\ env.stage = IDLE
    /\ env.rates[4] = 50
    /\ env.incNum # 0
    /\ env.incDen > 30

\* C17: the samples rendered from an envelope in Release never rise: each is
\* at most the one before it (the first at most the value the envelope had),
\* none is below the amplitude of L4, and the block leaves the envelope in
\* Release or Idle, at L4 once Idle.
ReleaseDecreases ==
    \A n \in EnvBlockSizes :
        env.stage = RELEASE =>
            LET r == EnvRender(env, n) IN
            /\ r.out[1] <= env.cur
            /\ \A k \in 1..(n - 1) : r.out[k + 1] <= r.out[k]
            /\ \A k \in 1..n : r.out[k] >= LevelAmp(env.levels[4])
            /\ r.env.stage \in {RELEASE, IDLE}
            /\ r.env.stage = IDLE => r.env.cur = LevelAmp(env.levels[4])

\* C18: in every reachable state of an envelope, whatever calls led to it, an
\* Idle envelope has a per-sample increment of 0.
IdleIncrementZero ==
    env.stage = IDLE => env.incNum = 0

\* C20: while the preset in use has key_sync off, the LFO phase of the voice
\* that note_on(note, velocity > 0) gives the note to is after the call what
\* it was before the call.
LfoPhaseCarriesOver ==
    \A note \in Notes, velocity \in Velocities \ {0} :
        currentPreset # NoPreset /\ ~PresetOf(currentPreset).key_sync =>
            LET s == SynthNoteOn(Synth, note, velocity) IN
            s.voices[s.map[note]].lfo.phase = voices[s.map[note]].lfo.phase

\* C19: Synth.load_preset leaves the gate and the phase accumulator of each
\* operator of every voice that holds a note as they were before the call.
PresetKeepsGateAndPhase ==
    \A id \in PresetIds :
        LET s == SynthLoadPreset(Synth, id) IN
        \A i \in Voices :
            voices[i].gate =>
                /\ s.voices[i].gate
                /\ \A o \in Ops :
                     s.voices[i].ops[o].phase = voices[i].ops[o].phase

\* where an operator stands in a render order
Position(order, op) == CHOOSE k \in DOMAIN order : order[k] = op

\* the operators not placed before position k whose sources are all placed
ReadyAt(a, order, k) ==
    {op \in Ops \ {order[j] : j \in 1..(k - 1)} :
        \A e \in DOMAIN a.modulations :
            a.modulations[e][2] = op
            /\ ~(a.modulations[e][1] = op /\ op = a.feedback_op)
                => a.modulations[e][1] \in {order[j] : j \in 1..(k - 1)}}

\* C21: the render order of each of the 32 topologies is a permutation of the
\* six operators; every modulation edge other than the self-edge of the
\* feedback operator has its source before its destination; at each position
\* stands the lowest operator among those whose sources are all placed; and
\* the sort reaches all six operators, so none is appended afterwards.
RenderOrderTopological ==
    algo.pc = "rendered" =>
        /\ Len(algo.order) = 6
        /\ SeqRange(algo.order) = Ops
        /\ \A e \in DOMAIN Algo(algo.algorithm).modulations :
             LET m == Algo(algo.algorithm).modulations[e] IN
             ~(m[1] = m[2] /\ m[1] = Algo(algo.algorithm).feedback_op)
                 => Position(algo.order, m[1]) < Position(algo.order, m[2])
        /\ \A k \in 1..6 :
             /\ algo.order[k] \in ReadyAt(Algo(algo.algorithm), algo.order, k)
             /\ \A op \in ReadyAt(Algo(algo.algorithm), algo.order, k) :
                  algo.order[k] <= op
        /\ algo.appended = <<>>

\* a topology with two stacks that merge has been ordered: operators 3 and 5
\* are ready together, then 2 and 5, then 4
RenderOrderTopologicalWitness ==
    /\ algo.pc = "rendered"
    /\ algo.algorithm = 7
    /\ algo.raw_algorithm < 0
    /\ algo.order = <<3, 2, 5, 4, 1, 0>>

\* C22: whatever integers a preset gives for algorithm and feedback, the
\* loaded voice has the algorithm wrapped modulo 32 into 0..31, negative
\* input included, and the feedback clamped to 0..7, and rendering it looks up
\* the topology and the feedback level inside their tables.
PresetIntegersInRange ==
    /\ algo.pc # "IndexError"
    /\ algo.pc \in {"loaded", "rendered"} =>
         /\ algo.algorithm \in 0..31
         /\ \E q \in (0 - 2)..2 :
              algo.raw_algorithm = 32 * q + algo.algorithm
         /\ algo.feedback \in 0..7
         /\ algo.feedback = IF algo.raw_feedback < 0 THEN 0
                            ELSE IF algo.raw_feedback > 7 THEN 7
                            ELSE algo.raw_feedback
         /\ algo.algorithm + 1 \in DOMAIN ALGORITHMS
         /\ algo.feedback + 1 \in DOMAIN FEEDBACK_LEVELS

\* a patch with algorithm -1 and feedback 9 has been loaded and rendered
PresetIntegersInRangeWitness ==
    /\ algo.pc = "rendered"
    /\ algo.raw_algorithm = 0 - 1 /\ algo.algorithm = 31
    /\ algo.raw_feedback = 9 /\ algo.feedback = 7

\* C29: for every algorithm and feedback parameter, each operator that the
\* topology gives modulator sources is rendered with a phase modulation made
\* of the outputs of all these sources, the feedback operator with feedback
\* above 0 included.
ModulationSummed ==
    algo.pc = "rendered" =>
        \A op \in Ops :
            LET sources ==
                  {Algo(algo.algorithm).modulations[e][1] :
                     e \in {j \in DOMAIN Algo(algo.algorithm).modulations :
                              /\ Algo(algo.algorithm).modulations[j][2] = op
                              /\ Algo(algo.algorithm).modulations[j][1] # op}}
            IN sources # {} =>
                 /\ SeqRange(algo.mod_input[op]) = sources
                 /\ Len(algo.mod_input[op]) = Cardinality(sources)

\* C24: once a pitch-bend event has been delivered through the controller's
\* parameter callback, every voice of the pool has the delivered ratio
PitchBendReachesVoices ==
    (last.op = "param_change" /\ last.case = "pitch_bend")
        => \A i \in Voices : voices[i].pitch_bend = last.n

\* the render callback of engine a raises when asked for frames samples
CallbackRaises(a, s, frames) ==
    \/ a.render_callback = "raises"
    \/ a.render_callback = "synth" /\ SynthRender(s, frames).kind # "ok"

\* C26: in every engine state _audio_callback returns normally, and when no
\* callback is set or the render callback raises the whole buffer is silence
AudioCallbackNeverRaises ==
    /\ last.op = "audio_callback" => audio.result = "returned"
    /\ \A frames \in BlockSizes :
         /\ AudioCallback(audio, Synth, frames).audio.result = "returned"
         /\ Len(AudioCallback(audio, Synth, frames).audio.outdata) = frames
         /\ (audio.render_callback = "none"
               \/ CallbackRaises(audio, Synth, frames))
              => AudioCallback(audio, Synth, frames).audio.outdata
                     = Hold(0, frames)

\* the callback has run with Synth.render set while a voice was sounding, and
\* left silence
AudioCallbackNeverRaisesWitness ==
    /\ last.op = "audio_callback"
    /\ audio.render_callback = "synth"
    /\ \E i \in Voices : voices[i].active /\ voices[i].age > 0
    /\ audio.result = "returned"
    /\ audio.outdata = Hold(0, last.n)

\* C23: with no voice active, loading a preset twice in a row leaves the
\* synth (current preset, every field of every voice, the note map) as
\* loading it once
LoadPresetIdempotent ==
    (\A i \in Voices : ~voices[i].active)
        => \A id \in PresetIds :
             SynthLoadPreset(SynthLoadPreset(Synth, id), id)
                 = SynthLoadPreset(Synth, id)

\* a preset other than the default has been loaded into a silent pool (its
\* voices differ from new ones), and loading it again changes nothing
LoadPresetIdempotentWitness ==
    /\ last.op = "load_preset"
    /\ currentPreset = 2
    /\ \A i \in Voices : ~voices[i].active
    /\ \A i \in Voices : voices[i] # NewVoice
    /\ SynthLoadPreset(Synth, 2) = Synth

\* C28: every voice whose gate is held is the target of exactly one map
\* entry, keyed by its current note; no two held voices have the same note;
\* and note_off of a held voice's note releases that voice
HeldVoiceIsMapped ==
    /\ \A i \in Voices :
         voices[i].gate
           => /\ {n \in DOMAIN noteToVoice : noteToVoice[n] = i}
                    = {voices[i].note}
              /\ ~SynthNoteOff(Synth, voices[i].note).voices[i].gate
    /\ \A i, j \in Voices :
         (voices[i].gate /\ voices[j].gate /\ voices[i].note = voices[j].note)
           => i = j

\* a held note has been re-triggered (its old voice is released, another
\* voice holds it), and a further note_on steals the released voice while
\* the note stays mapped to, and releasable on, the voice that holds it
HeldVoiceIsMappedWitness ==
    /\ last.op = "note_on"
    /\ \E i, j \in Voices, m \in Notes :
         /\ i # j
         /\ ~voices[i].gate /\ voices[i].active
         /\ voices[j].gate /\ voices[j].note = voices[i].note
         /\ m # voices[i].note
         /\ AllocateVoice(voices) = i
         /\ SynthNoteOn(Synth, m, 100).voices[i].gate
         /\ SynthNoteOn(Synth, m, 100).map[voices[j].note] = j
         /\ ~SynthNoteOff(SynthNoteOn(Synth, m, 100),
                          voices[j].note).voices[j].gate

\* C25: concurrent note_on / note_off calls end as some sequential order of
\* them would: two note_on calls in progress for different notes are on their
\* way to two different voices, and once no thread is inside a call every
\* map entry points at a held voice playing that note, no voice has two
\* notes, and note_off of one note leaves the others held
ConcurrentCallsSerialize ==
    /\ \A t1, t2 \in Threads :
         (/\ threads[t1].pc = "assign" /\ threads[t2].pc = "assign"
          /\ threads[t1].note # threads[t2].note)
           => threads[t1].voice_idx # threads[t2].voice_idx
    /\ (\A t \in Threads : threads[t].pc = "idle")
         => /\ \A n \in DOMAIN noteToVoice :
                 /\ voices[noteToVoice[n]].gate
                 /\ voices[noteToVoice[n]].note = n
            /\ \A n1, n2 \in DOMAIN noteToVoice :
                 n1 # n2
                   => /\ noteToVoice[n1] # noteToVoice[n2]
                      /\ SynthNoteOff(Synth, n1).voices[noteToVoice[n2]].gate

MidiEnabledHasPort ==
    /\ midi.enabled => midi.port_name # <<>>
    /\ \A port_index \in PortIndexes, fails \in BOOLEAN :
         ~MidiEnable(midi, port_index, fails).result
           => /\ MidiEnable(midi, port_index, fails).enabled = midi.enabled
              /\ MidiEnable(midi, port_index, fails).port_name
                     = midi.port_name

====
